---------------------------- MODULE Spec2Model ----------------------------
(***************************************************************************)
(* Model of the verse drawing application: the relational store            *)
(* (database.py) and the HTTP handlers over it (app.py).                   *)
(*                                                                         *)
(* Strings that the code normalises or validates are tuples of one-letter  *)
(* strings, so that strip(), lower() and the email pattern are computed.   *)
(* Python's None is the tuple <<"None">>, a missing JSON key <<"Absent">>. *)
(* Every database statement (with its commit) is one atomic step; a        *)
(* handler that runs several statements is several steps.                  *)
(***************************************************************************)
EXTENDS Integers, Sequences, FiniteSets, Bags, TLC

\* ------------------------------------------------------------- bounds
NumSampleVerses == 1      \* length of sample_verses in the model (8 in the code)
MaxVerseId == 2           \* no process starts and no verse is added once the verses
                          \* table has handed out this identifier

Sessions == {"s1", "s2"}  \* browser sessions (cookie jars)
Procs    == {"p1", "p2"}  \* processes that may run init_db

None   == <<"None">>
Absent == <<"Absent">>

\* ------------------------------------------------------------- strings
Whitespace == {" ", "\t", "\n"}

UpperLetters == {"A", "B"}
LowerLetters == {"a", "b", "c", "o", "n", "m", "t", "r"}
Digits       == {"1", "2", "3", "4", "5", "6", "7", "8", "9"}

lower_char(c) ==
  CASE c = "A" -> "a"
    [] c = "B" -> "b"
    [] OTHER   -> c

\* str.lower()
lower(s) == [i \in 1..Len(s) |-> lower_char(s[i])]

RECURSIVE lstrip(_)
lstrip(s) == IF s # <<>> /\ Head(s) \in Whitespace THEN lstrip(Tail(s)) ELSE s

RECURSIVE rstrip(_)
rstrip(s) ==
  IF s # <<>> /\ s[Len(s)] \in Whitespace THEN rstrip(SubSeq(s, 1, Len(s) - 1)) ELSE s

\* str.strip()
strip(s) == rstrip(lstrip(s))

\* the character classes of the email pattern
LocalChars  == UpperLetters \cup LowerLetters \cup Digits \cup {".", "_", "%", "+", "-"}
DomainChars == UpperLetters \cup LowerLetters \cup Digits \cup {".", "-"}
TldChars    == UpperLetters \cup LowerLetters

AllIn(s, from, to, class) == \A k \in from..to : s[k] \in class

\* ^[a-zA-Z0-9._%+-]+@[a-zA-Z0-9.-]+\.[a-zA-Z]{2,}  matching all of s
pattern_fullmatch(s) ==
  \E i \in 2..Len(s) : \E j \in (i + 2)..(Len(s) - 2) :
    /\ s[i] = "@"
    /\ s[j] = "."
    /\ AllIn(s, 1, i - 1, LocalChars)
    /\ AllIn(s, i + 1, j - 1, DomainChars)
    /\ AllIn(s, j + 1, Len(s), TldChars)

\* re.match(pattern, email): "$" also matches just before a final newline
is_valid_email(email) ==
  \/ pattern_fullmatch(email)
  \/ /\ email # <<>>
     /\ email[Len(email)] = "\n"
     /\ pattern_fullmatch(SubSeq(email, 1, Len(email) - 1))

normalize_nolower(email) == strip(email)

\* draw_verse_for_user: email = email.lower().strip()
normalize(email) == strip(lower(email))

\* data.get(name, '').strip() or None
name_or_none(v) ==
  LET s == strip(IF v = Absent THEN <<>> ELSE v) IN IF s = <<>> THEN None ELSE s

\* generate_password_hash / check_password_hash: a one-way tag of the password
generate_password_hash(password) == <<"hash", password>>
check_password_hash(hash, password) == hash = generate_password_hash(password)

\* ------------------------------------------------------------- inputs
\* init_db: the default account, 'admin' / 'admin123'
ADMIN    == <<"a", "d", "m", "i", "n">>
ADMIN123 == <<"a", "d", "m", "i", "n", "1", "2", "3">>

E_a      == <<"a", "@", "b", ".", "c", "o">>
E_aUpper == <<"A", "@", "B", ".", "c", "o">>
E_aSpace == <<" ", "a", "@", "b", ".", "c", "o", " ">>
E_c      == <<"c", "@", "b", ".", "c", "o">>
E_noTld  == <<"a", "@", "b">>
E_tld1   == <<"a", "@", "b", ".", "c">>
E_inner  == <<"a", " ", "@", "b", ".", "c", "o">>
E_blank  == <<" ">>

WellFormedEmails == {E_a, E_aUpper, E_aSpace, E_c}
MalformedEmails  == {E_noTld, E_tld1, E_inner, E_blank}

\* the JSON bodies sent to POST /api/draw-verse: first_name and last_name are
\* missing, blank or given
Body(e, first, last) == [email |-> e, first_name |-> first, last_name |-> last]

DrawData ==
  {Body(e, Absent, Absent) : e \in WellFormedEmails \cup MalformedEmails \cup {None, Absent}}
    \cup {Body(E_a, <<"n", " ">>, <<"m">>), Body(E_aUpper, <<" ">>, Absent)}

\* the identities the well-formed inputs name
Identities == {E_a, E_c}

DigitChar == <<"1", "2", "3", "4", "5", "6", "7", "8", "9">>

\* init_db: the list of (text, reference) pairs seeded into an empty table
sample_verses ==
  [i \in 1..NumSampleVerses |-> [text |-> <<"t", DigitChar[i]>>, reference |-> <<"r", DigitChar[i]>>]]

\* ------------------------------------------------------------- state
VARIABLES
  USE_POSTGRES,   \* database.USE_POSTGRES, fixed at import
  verses,         \* table verses: rows [id, text, reference]
  verse_seq,      \* last identifier the verses table handed out
  user_draws,     \* table user_draws: rows [id, email, verse_id, first_name, last_name]
  draw_seq,       \* last identifier the user_draws table handed out
  admin,          \* table admin: rows [id, username, password_hash]
  proc,           \* each server process: its position in init_db
  session,        \* each browser session: flask's session mapping
  dh,             \* the draw requests in flight, a bag of [pc, email, first_name,
                  \* last_name, chosen]: each one's position in draw_verse
  resp,           \* the last HTTP response sent
  returned,       \* history: [email, verse] for the first verse a draw returned to an email
  logged_since,   \* history: each session has logged in since its start or last logout
  up,             \* some process has finished init_db and is serving requests
  deployment      \* who takes part: [concurrency, sessions, procs, restarts], fixed
                  \* from the start

vars == <<USE_POSTGRES, verses, verse_seq, user_draws, draw_seq, admin, proc,
          session, dh, resp, returned, logged_since, up, deployment>>

\* what is fixed when the application is deployed
config == <<USE_POSTGRES, deployment>>

store == <<verses, verse_seq, user_draws, draw_seq, admin>>

VerseIds == {v.id : v \in verses}

NoResp == [op |-> "none", status |-> 0, verse |-> 0, already_drawn |-> FALSE, body |-> <<>>]

DownProc == [pc |-> "down", pending_admin |-> FALSE, need_verses |-> FALSE]

Start(concurrency, sessions, procs, restarts) ==
  /\ deployment = [concurrency |-> concurrency, sessions |-> sessions, procs |-> procs,
                   restarts |-> restarts]
  /\ USE_POSTGRES \in BOOLEAN
  /\ verses = {}
  /\ verse_seq = 0
  /\ user_draws = {}
  /\ draw_seq = 0
  /\ admin = {}
  /\ proc = [p \in Procs |-> DownProc]
  /\ session = [s \in Sessions |-> [admin_logged_in |-> FALSE, admin_id |-> 0]]
  /\ dh = EmptyBag
  /\ resp = NoResp
  /\ returned = {}
  /\ logged_since = [s \in Sessions |-> FALSE]
  /\ up = FALSE

\* one draw request at a time, one admin session, one process that is restarted
\* while the application serves
Init == Start(1, {"s1"}, {"p1"}, TRUE)

\* two draw requests in flight together
InitRace == Start(2, {"s1"}, {"p1"}, FALSE)

\* two browser sessions
InitSessions == Start(1, Sessions, {"p1"}, FALSE)

\* two processes, each started once, on a store that is new or that an earlier
\* run left behind after the admin deleted every verse (nothing drawn, no
\* process running)
InitStartup ==
  /\ deployment = [concurrency |-> 1, sessions |-> {"s1"}, procs |-> Procs,
                   restarts |-> FALSE]
  /\ USE_POSTGRES \in BOOLEAN
  /\ \/ admin = {} /\ verse_seq = 0
     \/ /\ admin = {[id |-> 1, username |-> ADMIN,
                      password_hash |-> generate_password_hash(ADMIN123)]}
        /\ verse_seq = NumSampleVerses
  /\ verses = {}
  /\ user_draws = {}
  /\ draw_seq = 0
  /\ proc = [p \in Procs |-> DownProc]
  /\ session = [s \in Sessions |-> [admin_logged_in |-> FALSE, admin_id |-> 0]]
  /\ dh = EmptyBag
  /\ resp = NoResp
  /\ returned = {}
  /\ logged_since = [s \in Sessions |-> FALSE]
  /\ up = FALSE

\* a process that has finished init_db runs the handlers; a process that starts
\* later (a second worker, a restart) runs init_db while the others serve
Serving == up

\* ------------------------------------------------------------- init_db
\* A process starts: app.py calls database.init_db() at import. The CREATE TABLE
\* IF NOT EXISTS statements and their commit leave existing tables alone.
StartProcess(p) ==
  /\ p \in deployment.procs
  /\ proc[p].pc \in (IF deployment.restarts THEN {"down", "serving", "crashed"} ELSE {"down"})
  /\ verse_seq < MaxVerseId
  /\ proc' = [proc EXCEPT ![p] = [DownProc EXCEPT !.pc = "count_admin"]]
  /\ UNCHANGED <<config, verses, verse_seq, user_draws, draw_seq, admin,
                 session, dh, resp, returned, logged_since, up>>

\* SELECT COUNT(*) FROM admin
InitCountAdmin(p) ==
  /\ proc[p].pc = "count_admin"
  /\ proc' = [proc EXCEPT ![p].pc =
                IF Cardinality(admin) = 0 THEN "insert_admin" ELSE "count_verses"]
  /\ UNCHANGED <<config, verses, verse_seq, user_draws, draw_seq, admin,
                 session, dh, resp, returned, logged_since, up>>

username_taken_off(rows, username) == FALSE

\* admin.username is UNIQUE
username_taken(rows, username) == \E a \in rows : a.username = username

\* INSERT INTO admin ('admin', hash('admin123')): waits for another process's
\* uncommitted insert of the same row, fails on a committed one (the exception
\* leaves init_db and the import fails)
InitInsertAdmin(p) ==
  /\ proc[p].pc = "insert_admin"
  /\ \A q \in Procs \ {p} : ~proc[q].pending_admin
  /\ proc' = [proc EXCEPT ![p] =
                IF username_taken(admin, ADMIN)
                  THEN [DownProc EXCEPT !.pc = "crashed"]
                  ELSE [@ EXCEPT !.pc = "count_verses", !.pending_admin = TRUE]]
  /\ UNCHANGED <<config, verses, verse_seq, user_draws, draw_seq, admin,
                 session, dh, resp, returned, logged_since, up>>

InitCountVerses_always(p) ==
  /\ proc[p].pc = "count_verses"
  /\ proc' = [proc EXCEPT ![p].pc = "commit", ![p].need_verses = TRUE]
  /\ UNCHANGED <<config, verses, verse_seq, user_draws, draw_seq, admin,
                 session, dh, resp, returned, logged_since, up>>

\* SELECT COUNT(*) FROM verses
InitCountVerses(p) ==
  /\ proc[p].pc = "count_verses"
  /\ proc' = [proc EXCEPT ![p].pc = "commit",
                          ![p].need_verses = (Cardinality(verses) = 0)]
  /\ UNCHANGED <<config, verses, verse_seq, user_draws, draw_seq, admin,
                 session, dh, resp, returned, logged_since, up>>

\* the row of the default account; the table numbers its rows 1, 2, ... (no row
\* of it is ever deleted)
DefaultAdmin ==
  [id |-> 1, username |-> ADMIN, password_hash |-> generate_password_hash(ADMIN123)]

seed_rows_restart(last) ==
  {[id |-> i, text |-> sample_verses[i].text, reference |-> sample_verses[i].reference]
     : i \in 1..NumSampleVerses}

\* the rows init_db inserts into verses, numbered after the last identifier
seed_rows(last) ==
  {[id |-> last + i, text |-> sample_verses[i].text, reference |-> sample_verses[i].reference]
     : i \in 1..NumSampleVerses}

\* the inserts of this run and conn.commit(): they become visible together
InitCommit(p) ==
  /\ proc[p].pc = "commit"
  /\ admin' = IF proc[p].pending_admin
                THEN admin \cup {[DefaultAdmin EXCEPT !.id = Cardinality(admin) + 1]}
                ELSE admin
  /\ verses' = IF proc[p].need_verses THEN verses \cup seed_rows(verse_seq) ELSE verses
  /\ verse_seq' = IF proc[p].need_verses THEN verse_seq + NumSampleVerses ELSE verse_seq
  /\ proc' = [proc EXCEPT ![p] = [DownProc EXCEPT !.pc = "serving"]]
  /\ up' = TRUE
  /\ UNCHANGED <<config, user_draws, draw_seq, session, dh, resp, returned,
                 logged_since>>

\* ------------------------------------------------------------- draw
\* the response of POST /api/draw-verse
DrawResp(status, verse, already) ==
  [op |-> "draw", status |-> status, verse |-> verse, already_drawn |-> already, body |-> <<>>]

\* check_user_draw: the rows of user_draws JOIN verses for this email (the verse
\* columns of the pairing; an inner join, so a draw whose verse is gone yields none)
check_user_draw(email) ==
  {v \in verses : \E ud \in user_draws : ud.email = lower(email) /\ ud.verse_id = v.id}

\* draw_verse up to and including check_user_draw: the request is read and
\* validated, the email normalised, and the existing draw (if any) returned
DrawRequest(data) ==
  /\ Serving
  /\ BagCardinality(dh) < deployment.concurrency
  /\ UNCHANGED <<config, verses, verse_seq, user_draws, draw_seq, admin,
                 proc, session, returned, logged_since, up>>
  /\ IF data.email = Absent
       THEN \* 'email' not in data: 400
            /\ resp' = DrawResp(400, 0, FALSE)
            /\ UNCHANGED dh
     ELSE IF data.email = None
       THEN \* None.strip(): AttributeError, an unhandled exception: 500
            /\ resp' = DrawResp(500, 0, FALSE)
            /\ UNCHANGED dh
     ELSE IF ~is_valid_email(strip(data.email))
       THEN /\ resp' = DrawResp(400, 0, FALSE)
            /\ UNCHANGED dh
     ELSE LET email    == normalize(strip(data.email))
              existing == check_user_draw(email)
          IN  IF existing # {}
                THEN /\ resp' = DrawResp(200, (CHOOSE v \in existing : TRUE).id, TRUE)
                     /\ UNCHANGED dh
                ELSE /\ dh' = dh (+) SetToBag({[pc |-> "select", email |-> email,
                                                first_name |-> name_or_none(data.first_name),
                                                last_name |-> name_or_none(data.last_name),
                                                chosen |-> 0]})
                     /\ UNCHANGED resp

no_verses_off(rows) == FALSE

\* "if not verses"
no_verses(rows) == rows = {}

DrawSelect_depleting(r) ==
  /\ Serving
  /\ BagIn(r, dh)
  /\ r.pc = "select"
  /\ UNCHANGED <<config, verses, verse_seq, user_draws, draw_seq, admin,
                 proc, session, returned, logged_since, up>>
  /\ LET free == {v \in verses : \A ud \in user_draws : ud.verse_id # v.id}
     IN  IF no_verses(free)
           THEN /\ resp' = DrawResp(404, 0, FALSE)
                /\ dh' = dh (-) SetToBag({r})
           ELSE /\ \E chosen \in free :
                     dh' = (dh (-) SetToBag({r}))
                             (+) SetToBag({[r EXCEPT !.pc = "insert", !.chosen = chosen.id]})
                /\ UNCHANGED resp

\* SELECT id, text, reference FROM verses; None (404) if there are none,
\* else random.choice(verses)
DrawSelect(r) ==
  /\ Serving
  /\ BagIn(r, dh)
  /\ r.pc = "select"
  /\ UNCHANGED <<config, verses, verse_seq, user_draws, draw_seq, admin,
                 proc, session, returned, logged_since, up>>
  /\ IF no_verses(verses)
       THEN /\ resp' = DrawResp(404, 0, FALSE)
            /\ dh' = dh (-) SetToBag({r})
     ELSE IF verses = {}
       THEN \* random.choice of an empty list: IndexError, 500
            /\ resp' = DrawResp(500, 0, FALSE)
            /\ dh' = dh (-) SetToBag({r})
       ELSE /\ \E chosen \in verses :
                 dh' = (dh (-) SetToBag({r}))
                         (+) SetToBag({[r EXCEPT !.pc = "insert", !.chosen = chosen.id]})
            /\ UNCHANGED resp

email_taken_off(rows, email) == FALSE

\* user_draws.email is UNIQUE
email_taken(rows, email) == \E ud \in rows : ud.email = email

\* FOREIGN KEY (verse_id) REFERENCES verses(id): PostgreSQL enforces it; sqlite3
\* does not unless PRAGMA foreign_keys is set, which the code never does
fk_enforced == USE_POSTGRES

\* INSERT INTO user_draws ...; conn.commit(); return the chosen verse
DrawInsert(r) ==
  /\ Serving
  /\ BagIn(r, dh)
  /\ r.pc = "insert"
  /\ dh' = dh (-) SetToBag({r})
  /\ UNCHANGED <<config, verses, verse_seq, admin, proc, session, logged_since, up>>
  /\ IF \/ email_taken(user_draws, r.email)
        \/ fk_enforced /\ r.chosen \notin VerseIds
       THEN \* IntegrityError, an unhandled exception: 500
            /\ resp' = DrawResp(500, 0, FALSE)
            /\ UNCHANGED <<user_draws, draw_seq, returned>>
       ELSE /\ user_draws' = user_draws \cup
                 {[id |-> draw_seq + 1, email |-> r.email, verse_id |-> r.chosen,
                   first_name |-> r.first_name, last_name |-> r.last_name]}
            /\ draw_seq' = draw_seq + 1
            /\ resp' = DrawResp(200, r.chosen, FALSE)
            /\ returned' = IF \E p \in returned : p.email = r.email
                             THEN returned
                             ELSE returned \cup {[email |-> r.email, verse |-> r.chosen]}

\* ------------------------------------------------------------- admin
AdminResp(op, status, body) ==
  [op |-> op, status |-> status, verse |-> 0, already_drawn |-> FALSE, body |-> body]

\* the JSON bodies sent to POST /api/admin/login
Credentials(u, p) == [username |-> u, password |-> p]
LoginData ==
  {Credentials(ADMIN, ADMIN123), Credentials(ADMIN, ADMIN), Credentials(<<"r", "o", "o", "t">>, ADMIN123),
   Credentials(Absent, ADMIN123)}

\* the JSON bodies sent to POST /api/admin/verses
Verse(t, r) == [text |-> t, reference |-> r]
VerseData ==
  {Verse(<<" ", "t">>, <<"r", " ">>), Verse(<<" ">>, <<"r">>), Verse(<<"t">>, <<>>),
   Verse(<<"t">>, Absent)}

NoSession == [admin_logged_in |-> FALSE, admin_id |-> 0]

verify_admin_nopassword(username, password) ==
  LET rows == {a \in admin : a.username = username}
  IN  IF rows # {} THEN (CHOOSE a \in rows : TRUE).id ELSE 0

\* verify_admin: the id of the row with this username if the password matches
\* its hash, else None (0)
verify_admin(username, password) ==
  LET rows == {a \in admin : a.username = username}
  IN  IF rows # {} /\ check_password_hash((CHOOSE a \in rows : TRUE).password_hash, password)
        THEN (CHOOSE a \in rows : TRUE).id
        ELSE 0

\* POST /api/admin/login
admin_login(s, data) ==
  /\ Serving
  /\ s \in deployment.sessions
  /\ UNCHANGED <<config, verses, verse_seq, user_draws, draw_seq, admin, proc,
                 dh, returned, up>>
  /\ IF data.username = Absent \/ data.password = Absent
       THEN /\ resp' = AdminResp("login", 400, <<>>)
            /\ UNCHANGED <<session, logged_since>>
       ELSE LET admin_id == verify_admin(data.username, data.password)
            IN  IF admin_id # 0
                  THEN /\ session' = [session EXCEPT ![s] =
                                        [admin_logged_in |-> TRUE, admin_id |-> admin_id]]
                       /\ resp' = AdminResp("login", 200, <<admin_id>>)
                       /\ logged_since' = [logged_since EXCEPT ![s] = TRUE]
                  ELSE /\ resp' = AdminResp("login", 401, <<>>)
                       /\ UNCHANGED <<session, logged_since>>

\* POST /api/admin/logout: session.clear()
admin_logout(s) ==
  /\ Serving
  /\ s \in deployment.sessions
  /\ session' = [session EXCEPT ![s] = NoSession]
  /\ logged_since' = [logged_since EXCEPT ![s] = FALSE]
  /\ resp' = AdminResp("logout", 200, <<>>)
  /\ UNCHANGED <<config, verses, verse_seq, user_draws, draw_seq, admin, proc,
                 dh, returned, up>>

admin_required_off(s) == TRUE

\* "session.get('admin_logged_in')" of the gated handlers
admin_required(s) == session[s].admin_logged_in

RECURSIVE order_by_id_desc(_)
order_by_id_desc(rows) ==
  IF rows = {} THEN <<>>
  ELSE LET first == CHOOSE r \in rows : \A q \in rows : q.id <= r.id
       IN  <<first>> \o order_by_id_desc(rows \ {first})

\* get_all_verses: SELECT ... FROM verses ORDER BY id DESC
get_all_verses(rows) == order_by_id_desc(rows)

\* get_draw_stats
get_draw_stats == [total_draws |-> Cardinality(user_draws), total_verses |-> Cardinality(verses)]

\* get_all_draws: user_draws JOIN verses (an inner join), most recent first.
\* drawn_at grows with the row identifier, which orders the rows here.
get_all_draws(draws, vs) ==
  LET uds == order_by_id_desc({ud \in draws : \E v \in vs : v.id = ud.verse_id})
  IN  [i \in 1..Len(uds) |->
         [email |-> uds[i].email, verse_id |-> uds[i].verse_id,
          first_name |-> uds[i].first_name, last_name |-> uds[i].last_name]]

\* GET /api/admin/verses
get_verses(s) ==
  /\ Serving
  /\ s \in deployment.sessions
  /\ resp' = IF ~admin_required(s) THEN AdminResp("get_verses", 401, <<>>)
             ELSE AdminResp("get_verses", 200,
                            [verses |-> get_all_verses(verses), stats |-> get_draw_stats])
  /\ UNCHANGED <<config, verses, verse_seq, user_draws, draw_seq, admin, proc,
                 session, dh, returned, logged_since, up>>

\* GET /api/admin/draws
admin_draws(s) ==
  /\ Serving
  /\ s \in deployment.sessions
  /\ resp' = IF ~admin_required(s) THEN AdminResp("admin_draws", 401, <<>>)
             ELSE AdminResp("admin_draws", 200, get_all_draws(user_draws, verses))
  /\ UNCHANGED <<config, verses, verse_seq, user_draws, draw_seq, admin, proc,
                 session, dh, returned, logged_since, up>>

\* POST /api/admin/verses
add_verse(s, data) ==
  /\ Serving
  /\ s \in deployment.sessions
  /\ UNCHANGED <<config, user_draws, draw_seq, admin, proc, session, dh, returned,
                 logged_since, up>>
  /\ IF ~admin_required(s)
       THEN /\ resp' = AdminResp("add_verse", 401, <<>>)
            /\ UNCHANGED <<verses, verse_seq>>
     ELSE IF data.text = Absent \/ data.reference = Absent
       THEN /\ resp' = AdminResp("add_verse", 400, <<>>)
            /\ UNCHANGED <<verses, verse_seq>>
     ELSE IF strip(data.text) = <<>> \/ strip(data.reference) = <<>>
       THEN /\ resp' = AdminResp("add_verse", 400, <<>>)
            /\ UNCHANGED <<verses, verse_seq>>
       ELSE /\ verse_seq < MaxVerseId
            /\ verses' = verses \cup {[id |-> verse_seq + 1, text |-> strip(data.text),
                                       reference |-> strip(data.reference)]}
            /\ verse_seq' = verse_seq + 1
            /\ resp' = AdminResp("add_verse", 200, <<verse_seq + 1>>)

delete_verse_cascade(s, verse_id) ==
  /\ Serving
  /\ s \in deployment.sessions
  /\ UNCHANGED <<config, verse_seq, draw_seq, admin, proc, session, dh,
                 returned, logged_since, up>>
  /\ IF ~admin_required(s)
       THEN /\ resp' = AdminResp("delete_verse", 401, <<>>)
            /\ UNCHANGED <<verses, user_draws>>
       ELSE /\ verses' = {v \in verses : v.id # verse_id}
            /\ user_draws' = {ud \in user_draws : ud.verse_id # verse_id}
            /\ resp' = AdminResp("delete_verse", IF verse_id \in VerseIds THEN 200 ELSE 404,
                                 <<>>)

\* DELETE /api/admin/verses/<int:verse_id>
delete_verse(s, verse_id) ==
  /\ Serving
  /\ s \in deployment.sessions
  /\ UNCHANGED <<config, verse_seq, user_draws, draw_seq, admin, proc, session, dh,
                 returned, logged_since, up>>
  /\ IF ~admin_required(s)
       THEN /\ resp' = AdminResp("delete_verse", 401, <<>>)
            /\ UNCHANGED verses
     ELSE IF fk_enforced /\ \E ud \in user_draws : ud.verse_id = verse_id
       THEN \* the row is referenced: IntegrityError, an unhandled exception: 500
            /\ resp' = AdminResp("delete_verse", 500, <<>>)
            /\ UNCHANGED verses
       ELSE /\ verses' = {v \in verses : v.id # verse_id}
            /\ resp' = AdminResp("delete_verse", IF verse_id \in VerseIds THEN 200 ELSE 404,
                                 <<>>)

\* ------------------------------------------------------------- system
Next ==
  \/ \E p \in Procs : StartProcess(p)
  \/ \E p \in Procs : InitCountAdmin(p)
  \/ \E p \in Procs : InitInsertAdmin(p)
  \/ \E p \in Procs : InitCountVerses(p)
  \/ \E p \in Procs : InitCommit(p)
  \/ \E data \in DrawData : DrawRequest(data)
  \/ \E r \in BagToSet(dh) : DrawSelect(r)
  \/ \E r \in BagToSet(dh) : DrawInsert(r)
  \/ \E s \in Sessions, data \in LoginData : admin_login(s, data)
  \/ \E s \in Sessions : admin_logout(s)
  \/ \E s \in Sessions : get_verses(s)
  \/ \E s \in Sessions : admin_draws(s)
  \/ \E s \in Sessions, data \in VerseData : add_verse(s, data)
  \/ \E s \in Sessions, verse_id \in 1..(verse_seq + 1) : delete_verse(s, verse_id)

Spec == Init /\ [][Next]_vars
SpecRace == InitRace /\ [][Next]_vars
SpecSessions == InitSessions /\ [][Next]_vars
SpecStartup == InitStartup /\ [][Next]_vars

\* ------------------------------------------------------------- claims
\* the identity a well-formed input names: its lowercased, trimmed text,
\* tabulated for the inputs
IdentityOf(e) == IF e \in {E_a, E_aUpper, E_aSpace} THEN E_a ELSE E_c

DrawsOf(rows, id) == {ud \in rows : ud.email = id}

\* C1: in every reachable state the store holds at most one DrawRecord per
\* normalized (lowercased, trimmed) email, also when two draws for the same
\* identity are in flight together.
C1_OneDrawPerEmail ==
  \A x \in user_draws : \A y \in user_draws :
    strip(lower(x.email)) = strip(lower(y.email)) => x = y

\* a draw is about to insert for an identity whose record another draw, in
\* flight with it, has already created
C1_Witness ==
  \E r \in BagToSet(dh) : r.pc = "insert" /\ DrawsOf(user_draws, r.email) # {}

\* C2: when concurrent draws for one identity have all seen no record, the draw
\* that inserts after another has inserted still completes: it answers 200 with
\* the winner's verse and already_drawn = true.
C2_LoserReturnsWinnersVerse ==
  [][\A r \in BagToSet(dh) : \A ud \in user_draws :
       (DrawInsert(r) /\ ud.email = r.email /\ ud.verse_id \in VerseIds)
         => resp' = DrawResp(200, ud.verse_id, TRUE)]_vars

\* the verse a draw first returned to this email (0 if none has)
ReturnedTo(id) ==
  IF \E p \in returned : p.email = id THEN (CHOOSE p \in returned : p.email = id).verse ELSE 0

\* this step ends a draw request that was in flight
Finishes(r) == (DrawSelect(r) \/ DrawInsert(r)) /\ ~BagIn(r, dh')

\* C3: once a draw for an identity has returned verse V, every later draw for
\* that identity answers 200 with V and already_drawn = true, and no step of
\* it changes the store, whatever happened in between.
C3_LaterDrawSameVerse ==
  [][\A id \in Identities :
       ReturnedTo(id) # 0 =>
         /\ \A data \in DrawData :
              (data.email \in WellFormedEmails /\ IdentityOf(data.email) = id
                 /\ DrawRequest(data) /\ dh' = dh)
                => resp' = DrawResp(200, ReturnedTo(id), TRUE)
         /\ \A r \in BagToSet(dh) :
              (r.email = id /\ Finishes(r))
                => resp' = DrawResp(200, ReturnedTo(id), TRUE) /\ UNCHANGED store]_vars

\* the record the last response (a first draw) has just created
JustDrawn(ud) ==
  /\ ud \in user_draws
  /\ ud.id = draw_seq
  /\ resp = DrawResp(200, ud.verse_id, FALSE)

\* C4: for a well-formed email e with no record and a non-empty pool, draw(e)
\* answers already_drawn = false and creates the one record of the identity,
\* keyed by the lowercased, trimmed email; a draw(e') that directly follows,
\* for any e' that differs from e only in case or surrounding whitespace,
\* answers the same verse with already_drawn = true and creates nothing.
C4_VariantsShareOneDraw ==
  [][/\ \A r \in BagToSet(dh) :
          (DrawInsert(r) /\ DrawsOf(user_draws, r.email) = {} /\ r.chosen \in VerseIds)
            => /\ resp' = DrawResp(200, r.chosen, FALSE)
               /\ r.email \in Identities
               /\ \E ud \in user_draws' :
                    /\ user_draws' = user_draws \cup {ud}
                    /\ ud.email = r.email /\ ud.verse_id = r.chosen
     /\ \A data \in DrawData : \A ud \in user_draws :
          (data.email \in WellFormedEmails /\ JustDrawn(ud) /\ ud.verse_id \in VerseIds
             /\ ud.email \in Identities /\ IdentityOf(data.email) = ud.email
             /\ DrawRequest(data))
            => /\ resp' = DrawResp(200, ud.verse_id, TRUE)
               /\ UNCHANGED <<store, dh>>
               /\ Cardinality(DrawsOf(user_draws', ud.email)) = 1
     /\ \A ud \in user_draws : JustDrawn(ud) => ud.email \in Identities]_vars

\* a draw answered from the one record of its identity
C4_Witness ==
  \E ud \in user_draws :
    /\ resp = DrawResp(200, ud.verse_id, TRUE)
    /\ ud.email = E_a
    /\ Cardinality(DrawsOf(user_draws, E_a)) = 1

\* C5: a draw that finds the verse collection empty answers 404 for every
\* identity (also one that holds a record), is never answered from the lookup
\* path, and leaves the DrawRecords as they were.
C5_EmptyPoolNoDraw ==
  [][/\ \A r \in BagToSet(dh) :
          (DrawSelect(r) /\ verses = {})
            => resp' = DrawResp(404, 0, FALSE) /\ user_draws' = user_draws
     /\ \A data \in DrawData :
          (data.email \in WellFormedEmails /\ DrawRequest(data) /\ verses = {})
            => resp' = resp /\ dh' # dh /\ user_draws' = user_draws]_vars

\* a draw for an identity that holds a record was answered 404 on an empty pool
C5_Witness ==
  /\ resp = DrawResp(404, 0, FALSE)
  /\ verses = {}
  /\ user_draws # {}

\* C6: a draw request whose email is missing or is not a well-formed address
\* answers 400 without reaching draw_verse_for_user, and the store is unchanged.
C6_MalformedEmailIs400 ==
  [][\A data \in DrawData :
       (data.email \in MalformedEmails \cup {None, Absent} /\ DrawRequest(data))
         => resp' = DrawResp(400, 0, FALSE) /\ UNCHANGED <<store, dh>>]_vars

GatedOps == {"get_verses", "admin_draws", "add_verse", "delete_verse"}

\* this step is one of the gated admin handlers, called from session s
Gated(s) ==
  \/ get_verses(s)
  \/ admin_draws(s)
  \/ \E data \in VerseData : add_verse(s, data)
  \/ \E verse_id \in 1..(verse_seq + 1) : delete_verse(s, verse_id)

\* C7: listVerses/getStats, listDraws, addVerse and deleteVerse called from a
\* session with no successful login since its start or last logout answer 401
\* and leave the store unchanged; from a session that has logged in and not
\* logged out since, they are served (never 401).
C7_GatedBySessionLogin ==
  [][\A s \in Sessions :
       Gated(s) =>
         IF logged_since[s]
           THEN resp'.status # 401
           ELSE resp'.status = 401 /\ resp'.body = <<>> /\ UNCHANGED store]_vars

\* a gated call was refused although another session is logged in
C7_Witness ==
  /\ resp.op \in GatedOps
  /\ resp.status = 401
  /\ \E s \in Sessions : logged_since[s]

\* C8: listDraws returns every DrawRecord, also the records whose verse has
\* been deleted: it returns as many entries as there are DrawRecords.
C8_ListDrawsReturnsEveryRecord ==
  (resp.op = "admin_draws" /\ resp.status = 200) => Len(resp.body) = Cardinality(user_draws)

\* the draws whose verse is no longer in the verse collection
Dangling == {ud \in user_draws : ud.verse_id \notin VerseIds}

\* C9: a draw for an identity whose DrawRecord references a deleted verse ends
\* without a store error: it answers 200 with already_drawn = true and does not
\* try to insert a second record (here: while the pool is not empty).
C9_DanglingDrawSoftFails ==
  [][\A r \in BagToSet(dh) :
       (DrawsOf(Dangling, r.email) # {} /\ verses # {} /\ Finishes(r))
         => /\ resp'.status = 200
            /\ resp'.already_drawn
            /\ ~DrawInsert(r)]_vars

SortedByIdDesc(seq) == \A i \in 1..Len(seq) : \A j \in 1..Len(seq) : i < j => seq[i].id > seq[j].id

\* C10: for a logged-in admin, addVerse with a non-empty text and reference
\* makes the new verse the first of listVerses (most recent first); deleteVerse
\* of an existing verse removes it from listVerses; deleteVerse of an id that
\* is not in the collection answers 404 and changes nothing; addVerse with an
\* empty or missing text or reference answers 400 and adds nothing.
C10_VerseManagement ==
  [][\A s \in Sessions :
       logged_since[s] =>
         /\ \A data \in VerseData :
              add_verse(s, data) =>
                IF data.text # Absent /\ data.reference # Absent
                     /\ strip(data.text) # <<>> /\ strip(data.reference) # <<>>
                  THEN /\ resp'.status = 200
                       /\ Head(get_all_verses(verses')) =
                            [id |-> resp'.body[1], text |-> strip(data.text),
                             reference |-> strip(data.reference)]
                       /\ verses' = verses \cup {Head(get_all_verses(verses'))}
                  ELSE resp'.status = 400 /\ UNCHANGED store
         /\ get_verses(s) =>
              /\ resp'.status = 200
              /\ SortedByIdDesc(resp'.body.verses)
              /\ {resp'.body.verses[i] : i \in 1..Len(resp'.body.verses)} = verses
         /\ \A verse_id \in 1..(verse_seq + 1) :
              delete_verse(s, verse_id) =>
                IF verse_id \in VerseIds
                  THEN /\ resp'.status = 200
                       /\ \A i \in 1..Len(get_all_verses(verses')) :
                            get_all_verses(verses')[i].id # verse_id
                  ELSE resp'.status = 404 /\ UNCHANGED store]_vars

\* the rows of the verse collection that hold the i-th starter verse
SeedCopies(i) ==
  {v \in verses : v.text = sample_verses[i].text /\ v.reference = sample_verses[i].reference}

\* C11: initialization is idempotent. A run of init_db that finds the admin
\* table non-empty inserts no admin row, one that finds the verse table
\* non-empty inserts no verse, and a run that found both non-empty commits
\* without changing any collection; no other step of init_db writes. So, however
\* often the process is started, the store holds one default admin row and
\* never a second copy of a starter verse.
C11_InitIdempotent ==
  /\ [](/\ up => admin = {DefaultAdmin}
        /\ \A i \in 1..NumSampleVerses : Cardinality(SeedCopies(i)) <= 1)
  /\ [][\A p \in Procs :
          /\ (StartProcess(p) \/ InitCountAdmin(p) \/ InitInsertAdmin(p) \/ InitCountVerses(p))
               => UNCHANGED store
          /\ (InitCountAdmin(p) /\ admin # {}) => proc'[p].pc = "count_verses"
          /\ (InitCountVerses(p) /\ verses # {}) => ~proc'[p].need_verses
          /\ (InitCommit(p) /\ ~proc[p].pending_admin /\ ~proc[p].need_verses)
               => UNCHANGED store
          /\ (InitCommit(p) /\ proc[p].need_verses /\ verses = {})
               => \A i \in 1..NumSampleVerses : Cardinality(SeedCopies(i)') = 1]_vars

\* a restarted process is about to commit a run of init_db that found both
\* tables non-empty
C11_Witness ==
  \E p \in Procs :
    /\ up
    /\ proc[p].pc = "commit"
    /\ ~proc[p].pending_admin /\ ~proc[p].need_verses
    /\ admin # {} /\ verses # {}

\* C12: a DrawRecord, once it exists, stays as it is: every step of every
\* operation (the steps of a draw with any names, addVerse, deleteVerse,
\* listDraws, getStats, login, logout, init_db) keeps it with the same email,
\* verse reference, first name and last name, and it stays the only record of
\* its email (so a repeat draw with other names stores nothing).
C12_DrawRecordsImmutable ==
  [][\A ud \in user_draws : DrawsOf(user_draws', ud.email) = {ud}]_vars

\* a repeat draw was answered from a record stored without names (the repeat
\* requests for this identity include one that gives names), after the verse
\* collection had changed
C12_Witness ==
  \E ud \in user_draws :
    /\ ud.email = E_a
    /\ ud.first_name = None /\ ud.last_name = None
    /\ resp = DrawResp(200, ud.verse_id, TRUE)
    /\ verse_seq > NumSampleVerses

\* C13: once a run of init_db has completed, the admin collection holds
\* exactly one row, the default account, in every state: no login, logout,
\* draw, verse operation or further run of init_db (also one racing with the
\* first) adds, removes or changes an AdminCredential row.
C13_OneAdminRow == up => admin = {DefaultAdmin}

\* both processes have ended init_db and an admin has logged in and managed verses
C13_Witness ==
  /\ up
  /\ \A p \in Procs : proc[p].pc \in {"serving", "crashed"}
  /\ session["s1"].admin_logged_in
  /\ resp.op \in {"add_verse", "delete_verse"} /\ resp.status = 200

\* C14: a login with an unknown username or a wrong password answers 401 and
\* changes neither the store nor the session (a logged-out session stays
\* logged out, a logged-in one stays logged in); a login with the seeded
\* default credentials answers 200, marks the session as logged in, leaves the
\* store unchanged and returns the identifier of the default account, the same
\* on every call.
C14_Authenticate ==
  [][\A s \in Sessions : \A data \in LoginData :
       (admin_login(s, data) /\ data.username # Absent /\ data.password # Absent)
         => IF data = Credentials(ADMIN, ADMIN123)
              THEN /\ resp' = AdminResp("login", 200, <<DefaultAdmin.id>>)
                   /\ session'[s] = [admin_logged_in |-> TRUE, admin_id |-> DefaultAdmin.id]
                   /\ \A t \in Sessions \ {s} : session'[t] = session[t]
                   /\ UNCHANGED store
              ELSE /\ resp' = AdminResp("login", 401, <<>>)
                   /\ UNCHANGED <<store, session>>]_vars

\* a failed login from a session that is logged in, which stays logged in
C14_Witness ==
  /\ resp = AdminResp("login", 401, <<>>)
  /\ session["s1"].admin_logged_in
  /\ ~session["s2"].admin_logged_in

\* the request r, having read the pool, goes on with verse v
Picks(r, v) ==
  dh' = (dh (-) SetToBag({r})) (+) SetToBag({[r EXCEPT !.pc = "insert", !.chosen = v.id]})

\* C15: draws do not deplete the pool. No step of a draw (a step that takes up,
\* moves on or answers a draw request) adds, removes or changes a verse; a draw that is about to read the pool can go on with any
\* verse of the collection, however many records refer to it; the verse a draw
\* goes on with is in the collection it read, the verse a first draw returns is
\* the one it went on with, and a repeat draw returns a verse of the collection.
C15_PoolNotDepleted ==
  [][/\ \A r \in BagToSet(dh) :
          /\ (DrawSelect(r) \/ DrawInsert(r)) => UNCHANGED <<verses, verse_seq>>
          /\ r.pc = "select" => \A v \in verses : ENABLED (DrawSelect(r) /\ Picks(r, v))
          /\ DrawSelect(r) =>
               \A q \in BagToSet(dh') : q.pc = "insert" => q.chosen \in VerseIds
          /\ (DrawInsert(r) /\ user_draws' # user_draws)
               => resp' = DrawResp(200, r.chosen, FALSE)
     /\ (dh' # dh \/ (resp' # resp /\ resp'.op = "draw")) => UNCHANGED <<verses, verse_seq>>
     /\ (resp' # resp /\ resp'.op = "draw" /\ resp'.status = 200 /\ resp'.already_drawn)
          => resp'.verse \in VerseIds]_vars

\* a second identity has drawn the verse the first one holds
C15_Witness ==
  \E x \in user_draws : \E y \in user_draws :
    /\ x.email # y.email
    /\ x.verse_id = y.verse_id
    /\ resp = DrawResp(200, y.verse_id, FALSE)
    /\ y.id = draw_seq

\* C16: whenever a draw inserts a DrawRecord, the verse the record refers to is
\* in the verse collection at that moment, also when a deleteVerse has run
\* between the draw's read of the pool and its insert.
C16_VersePresentAtInsert ==
  [][\A r \in BagToSet(dh) :
       (DrawInsert(r) /\ user_draws' # user_draws) => r.chosen \in VerseIds]_vars

\* C17: when two processes run init_db together on one store, no run ends in
\* an error, and the store never holds more than the one default admin row and
\* one copy of each starter verse; once both have finished, the admin row is
\* there.
C17_ConcurrentInitSafe ==
  /\ \A p \in Procs : proc[p].pc # "crashed"
  /\ Cardinality(admin) <= 1
  /\ \A i \in 1..NumSampleVerses : Cardinality(SeedCopies(i)) <= 1
  /\ (\A p \in Procs : proc[p].pc = "serving") => admin = {DefaultAdmin}

\* C18: a draw answers already_drawn = false only in the step that creates the
\* DrawRecord of its identity, which had none: the step adds exactly that one
\* record, holding the verse the answer returns; every record is created by
\* such a step and no record ever goes away. So each identity gets at most one
\* such answer, and there are as many of them as there are DrawRecords.
C18_NewlyDrawnOncePerIdentity ==
  [][/\ \A r \in BagToSet(dh) :
          (DrawInsert(r) /\ resp'.status = 200)
            => /\ ~resp'.already_drawn
               /\ DrawsOf(user_draws, r.email) = {}
               /\ \E ud \in user_draws' \ user_draws :
                    /\ user_draws' = user_draws \cup {ud}
                    /\ ud.email = r.email
                    /\ ud.verse_id = resp'.verse
     /\ (resp' # resp /\ resp'.op = "draw" /\ resp'.status = 200 /\ ~resp'.already_drawn)
          => Cardinality(user_draws') = Cardinality(user_draws) + 1
     /\ user_draws' # user_draws
          => /\ user_draws \subseteq user_draws'
             /\ \E r \in BagToSet(dh) : DrawInsert(r) /\ resp' = DrawResp(200, r.chosen, FALSE)]_vars

\* a draw has just been answered already_drawn = false while a second draw for
\* the same identity, which also saw no record, is about to insert
C18_Witness ==
  \E ud \in user_draws : \E r \in BagToSet(dh) :
    /\ resp = DrawResp(200, ud.verse_id, FALSE)
    /\ ud.id = draw_seq
    /\ r.pc = "insert"
    /\ r.email = ud.email

\* every verse identifier the state still knows of: of the verses, of the
\* DrawRecords, of the draws in flight
KnownVerseIds ==
  VerseIds \cup {ud.verse_id : ud \in user_draws} \cup {r.chosen : r \in BagToSet(dh)}

\* C19: verse identifiers are never reused. Every verse that addVerse or the
\* seeding of init_db creates gets an identifier greater than every identifier
\* handed out before, those of deleted verses included, and so different from
\* any a DrawRecord or a draw in flight refers to: a record whose verse was
\* deleted never comes to resolve to a verse added later.
C19_VerseIdsNeverReused ==
  /\ [](\A id \in KnownVerseIds : id <= verse_seq)
  /\ [][/\ verse_seq' >= verse_seq
        /\ \A v \in verses' \ verses :
             /\ v.id > verse_seq
             /\ v.id <= verse_seq'
             /\ v.id \notin KnownVerseIds
        /\ \A ud \in Dangling : ud.verse_id \notin {v.id : v \in verses'}]_vars

\* a verse was added after the verse of a DrawRecord was deleted
C19_Witness ==
  \E ud \in Dangling : \E v \in verses :
    /\ v.id > ud.verse_id
    /\ resp.op = "add_verse" /\ resp.status = 200

=============================================================================
